---- MODULE Spec2Model ----
(***************************************************************************)
(* Survey dashboard (src/main.py): column normaliser, long-format          *)
(* transformer (process_data), filters, split-and-expand of the packed     *)
(* availability / motivation fields and the aggregate tables, as one       *)
(* script run per user interaction.                                        *)
(*                                                                         *)
(* Text is a sequence of one-character strings, so that splitting,         *)
(* trimming, lower-casing, slicing and number parsing are computed on the  *)
(* characters.  Column names are plain strings: the code only compares     *)
(* and renames them.  A data frame is [columns, rows]; a row is a function *)
(* from column name to cell; long-table rows also carry their pandas       *)
(* index label under "index".                                              *)
(***************************************************************************)
EXTENDS Integers, Sequences, FiniteSets, TLC

(***************************************************************************)
(* Bounds of the model.                                                    *)
(***************************************************************************)
\* respondents in a sheet of the process_data specification
MaxRows == 2
\* respondents in a sheet of the session specification
MaxRespostas == 3
\* respondents in a sheet of the expansion specification
MaxDetalhe == 2
\* respondents in a sheet of the placeholder specification
MaxFrases == 1

(***************************************************************************)
(* Characters.                                                             *)
(***************************************************************************)
\* the missing-value marker (numpy.nan): no text equals it, every element of
\* a text being a single character
NaN == <<"NaN">>

isna(v) == v = NaN

\* characters matched by \s and removed by str.strip()
Whitespace == {" ", "\t", "\n", "\r", "\f"}

Digits == <<"0","1","2","3","4","5","6","7","8","9">>

UpperChars ==
    <<"A","B","C","D","E","F","G","H","I","J","K","L","M","N","O","P","Q","R","S","T","U","V",
      "W","X","Y","Z","Á","Â","Ã","Ç","É","Ê","Í","Ó","Ô","Õ","Ú">>

LowerChars ==
    <<"a","b","c","d","e","f","g","h","i","j","k","l","m","n","o","p","q","r","s","t","u","v",
      "w","x","y","z","á","â","ã","ç","é","ê","í","ó","ô","õ","ú">>

\* the characters of the model in code-point order (the order sorted() uses)
CodePoints ==
    <<"\t","\n","\f","\r"," ","!","\"","(",")","+",",","-",".">> \o Digits \o <<":","?">>
      \o SubSeq(UpperChars, 1, 26) \o SubSeq(LowerChars, 1, 26)
      \o SubSeq(UpperChars, 27, 37) \o SubSeq(LowerChars, 27, 37)

Ord(c) == CHOOSE i \in 1..Len(CodePoints) : CodePoints[i] = c

Min(a, b) == IF a <= b THEN a ELSE b

\* str.lower() of one character
LowerChar(c) ==
    IF \E i \in 1..Len(UpperChars) : UpperChars[i] = c
    THEN LowerChars[CHOOSE i \in 1..Len(UpperChars) : UpperChars[i] = c]
    ELSE c

\* Series.str.lower(): a missing value stays missing
LowerIdentity(s) == s

Lower(s) == IF isna(s) THEN NaN ELSE [i \in 1..Len(s) |-> LowerChar(s[i])]

\* str < str of Python: lexicographic on code points
RECURSIVE StrLess(_, _)
StrLess(a, b) ==
    IF b = <<>> THEN FALSE
    ELSE IF a = <<>> THEN TRUE
    ELSE IF Head(a) = Head(b) THEN StrLess(Tail(a), Tail(b))
    ELSE Ord(Head(a)) < Ord(Head(b))

\* sorted(list of distinct texts)
RECURSIVE SortedSeq(_)
SortedSeq(S) ==
    IF S = {} THEN <<>>
    ELSE LET m == CHOOSE x \in S : \A y \in S \ {x} : StrLess(x, y)
         IN  <<m>> \o SortedSeq(S \ {m})

\* Series.str.strip()
RECURSIVE LStrip(_)
LStrip(s) == IF s # <<>> /\ Head(s) \in Whitespace THEN LStrip(Tail(s)) ELSE s

RECURSIVE RStrip(_)
RStrip(s) ==
    IF s # <<>> /\ s[Len(s)] \in Whitespace THEN RStrip(SubSeq(s, 1, Len(s) - 1)) ELSE s

StripLeftOnly(s) == IF isna(s) THEN NaN ELSE LStrip(s)

Strip(s) == IF isna(s) THEN NaN ELSE RStrip(LStrip(s))

\* end of the run of whitespace that starts at position i
RECURSIVE SkipWhitespace(_, _)
SkipWhitespace(s, i) ==
    IF i <= Len(s) /\ s[i] \in Whitespace THEN SkipWhitespace(s, i + 1) ELSE i

\* re.split(',\s*', s) from position i on, piece being the text gathered
\* since the last separator
RECURSIVE SplitFrom(_, _, _)
SplitFrom(s, i, piece) ==
    IF i > Len(s) THEN <<piece>>
    ELSE IF s[i] = "," THEN <<piece>> \o SplitFrom(s, SkipWhitespace(s, i + 1), <<>>)
    ELSE SplitFrom(s, i + 1, Append(piece, s[i]))

\* the separator taken as the literal text ,\s* (never found in a field)
SplitLiteral(s) == <<s>>

\* Series.str.split(',\s*') of one cell: a pattern longer than one character
\* is a regular expression
Split(s) == SplitFrom(s, 1, <<>>)

DigitValue(c) == (CHOOSE d \in 1..10 : Digits[d] = c) - 1

RECURSIVE DecimalValue(_)
DecimalValue(s) ==
    IF s = <<>> THEN 0
    ELSE 10 * DecimalValue(SubSeq(s, 1, Len(s) - 1)) + DigitValue(s[Len(s)])

\* str(int(a))
RECURSIVE IntToStr(_)
IntToStr(n) ==
    IF n < 10 THEN <<Digits[n + 1]>>
    ELSE Append(IntToStr(n \div 10), Digits[(n % 10) + 1])

\* a number as pd.to_numeric reads it from a text of at most 4 characters
\* (the code cuts the cell): m * 10^e with m not a multiple of 10, or an
\* infinity of the sign of m.  The float of the code is the double nearest
\* to this decimal; IntegerDigits gives the digits of its integer part.
Zero == [inf |-> FALSE, m |-> 0, e |-> 0]

Infinity(negative) == [inf |-> TRUE, m |-> IF negative THEN -1 ELSE 1, e |-> 0]

AllDigits(s) == \A i \in 1..Len(s) : \E d \in 1..10 : Digits[d] = s[i]

RECURSIVE StripLeadingZeros(_)
StripLeadingZeros(s) ==
    IF s # <<>> /\ Head(s) = "0" THEN StripLeadingZeros(Tail(s)) ELSE s

RECURSIVE StripTrailingZeros(_)
StripTrailingZeros(s) ==
    IF s # <<>> /\ s[Len(s)] = "0" THEN StripTrailingZeros(SubSeq(s, 1, Len(s) - 1)) ELSE s

\* the one element of a singleton set
Only(S) == CHOOSE x \in S : TRUE

\* the first position of one of chars in u, Len(u) + 1 when there is none
FirstIndex(u, chars) ==
    LET found == {i \in 1..Len(u) : u[i] \in chars}
    IN  IF found = {} THEN Len(u) + 1 ELSE CHOOSE i \in found : \A j \in found : i <= j

\* the text without its leading sign
Unsigned(t) == IF t # <<>> /\ t[1] \in {"+", "-"} THEN Tail(t) ELSE t

\* the number of the significant digits core, lost trailing zeros counted in zeros
Scaled(core, zeros, fraction, exponent, negative) ==
    IF core = <<>> THEN [ok |-> TRUE, valor |-> Zero]
    ELSE [ok |-> TRUE,
          valor |-> [inf |-> FALSE,
                     m |-> IF negative THEN 0 - DecimalValue(core) ELSE DecimalValue(core),
                     e |-> exponent - fraction + zeros]]

\* the number of integer digits ip, fraction digits fp and exponent digits
Number(ip, fp, hasexp, enegative, edigits, negative) ==
    IF ~(/\ AllDigits(ip) /\ AllDigits(fp) /\ Len(ip) + Len(fp) >= 1
         /\ ~hasexp \/ (edigits # <<>> /\ AllDigits(edigits)))
    THEN [ok |-> FALSE, valor |-> Zero]
    ELSE Only({Scaled(StripTrailingZeros(lead),
                      Len(lead) - Len(StripTrailingZeros(lead)),
                      Len(fp),
                      IF ~hasexp THEN 0
                      ELSE IF enegative THEN 0 - DecimalValue(edigits)
                      ELSE DecimalValue(edigits),
                      negative) : lead \in {StripLeadingZeros(ip \o fp)}})

\* mantissa and exponent texts: a decimal point splits the mantissa, a sign
\* may lead the exponent
Mantissa(mant, expo, hasexp, negative) ==
    Only({Number(SubSeq(mant, 1, dp - 1), SubSeq(mant, dp + 1, Len(mant)), hasexp,
                 expo # <<>> /\ expo[1] = "-", Unsigned(expo), negative)
          : dp \in {FirstIndex(mant, {"."})}})

\* the text after its sign: an e or E splits mantissa and exponent
Signless(u, negative) ==
    Only({Mantissa(SubSeq(u, 1, ep - 1), SubSeq(u, ep + 1, Len(u)), ep <= Len(u), negative)
          : ep \in {FirstIndex(u, {"e", "E"})}})

\* pd.to_numeric of one text: whitespace around, a sign, digits with at most
\* one decimal point and at least one digit, an exponent e/E with a sign and
\* at least one digit; or inf / infinity with a sign, in any case.  ok tells
\* whether the text is a number.
to_numeric(s) ==
    IF Unsigned([i \in 1..Len(s) |-> LowerChar(s[i])])
           \in {<<"i","n","f">>, <<"i","n","f","i","n","i","t","y">>}
    THEN [ok |-> TRUE, valor |-> Infinity(s[1] = "-")]
    ELSE Only({Signless(Unsigned(t), t # <<>> /\ t[1] = "-") : t \in {RStrip(LStrip(s))}})

RECURSIVE Pow10(_)
Pow10(n) == IF n = 0 THEN 1 ELSE 10 * Pow10(n - 1)

\* |m|
Abs(m) == IF m < 0 THEN 0 - m ELSE m

\* a natural number of any size: its decimal digits, the most significant
\* first, <<>> for 0
RECURSIVE NatDigits(_)
NatDigits(n) == IF n = 0 THEN <<>> ELSE Append(NatDigits(n \div 10), n % 10)

DigitsText(D) == IF D = <<>> THEN <<"0">> ELSE [i \in 1..Len(D) |-> Digits[D[i] + 1]]

DigitsLess(A, B) ==
    \/ Len(A) < Len(B)
    \/ /\ Len(A) = Len(B)
       /\ \E i \in 1..Len(A) : A[i] < B[i] /\ \A j \in 1..(i - 1) : A[j] = B[j]

\* D without its leading zeros
Canonical(D) ==
    Only({IF \A i \in 1..Len(d) : d[i] = 0 THEN <<>>
          ELSE SubSeq(d, CHOOSE i \in 1..Len(d) : d[i] # 0 /\ \A j \in 1..(i - 1) : d[j] = 0,
                      Len(d))
          : d \in {D}})

\* a natural number of any size in limbs: its digits four by four (base
\* 10000), the most significant first, <<>> for 0
RECURSIVE NatLimbs(_)
NatLimbs(n) == IF n = 0 THEN <<>> ELSE Append(NatLimbs(n \div 10000), n % 10000)

\* the limbs of the digits D
DigitsLimbs(D) ==
    Only({[j \in 1..((Len(d) + 3) \div 4) |->
             Only({(IF h > 3 THEN 1000 * d[h - 3] ELSE 0) + (IF h > 2 THEN 100 * d[h - 2] ELSE 0)
                     + (IF h > 1 THEN 10 * d[h - 1] ELSE 0) + d[h]
                   : h \in {Len(d) - (4 * (((Len(d) + 3) \div 4) - j))}})] \o <<>>
          : d \in {D}})

\* the digits of the limbs B
LimbsDigits(B) ==
    Only({Canonical([i \in 1..(4 * Len(b)) |->
                       (b[((i - 1) \div 4) + 1] \div Pow10(3 - ((i - 1) % 4))) % 10])
          : b \in {B}})

\* the limbs of 10^e
PowerOfTen(e) == <<Pow10(e % 4)>> \o [i \in 1..(e \div 4) |-> 0]

Pow2(n) == 2 ^ n

\* n * B + c on the limbs 1..i of B, for a small n and a small c
RECURSIVE TimesFrom(_, _, _, _)
TimesFrom(B, n, i, c) ==
    IF i = 0 THEN NatLimbs(c)
    ELSE Only({Append(TimesFrom(B, n, i - 1, t \div 10000), t % 10000)
               : t \in {(B[i] * n) + c}})

\* the limbs 1..i of B divided by a small n: the limbs q of the quotient, as
\* many as were divided, and the remainder r
RECURSIVE DividedTo(_, _, _)
DividedTo(B, n, i) ==
    IF i = 0 THEN [q |-> <<>>, r |-> 0]
    ELSE Only({[q |-> Append(p.q, ((p.r * 10000) + B[i]) \div n),
                r |-> ((p.r * 10000) + B[i]) % n]
               : p \in {DividedTo(B, n, i - 1)}})

\* 2^k * B, 15 bits at a time
RECURSIVE Doubled(_, _)
Doubled(B, k) ==
    IF k = 0 THEN B
    ELSE Only({Doubled(z[1], z[2])
               : z \in {<<TimesFrom(b, Pow2(c), Len(b), 0), k - c>>
                        : c \in {IF k < 15 THEN k ELSE 15}, b \in {B}}})

\* 2^63 in digits
TwoTo63 == <<9,2,2,3,3,7,2,0,3,6,8,5,4,7,7,5,8,0,8>>

\* a mantissa on its way to 53 bits: the integer is 2^k * (q + guard/2 and a
\* bit more when sticky), q in limbs; c more bits are shifted out, c from 1
\* to 15
Chunk(x, c) ==
    Only({Only({[q |-> Canonical(t.q), k |-> z[1].k + z[2],
                 guard |-> IF t.r >= Pow2(z[2] - 1) THEN 1 ELSE 0,
                 sticky |-> z[1].sticky \/ z[1].guard = 1 \/ t.r % Pow2(z[2] - 1) # 0]
                : t \in {DividedTo(z[1].q, Pow2(z[2]), Len(z[1].q))}})
          : z \in {<<x, c>>}})

\* n bits are shifted out, 15 at a time
RECURSIVE Shifted(_, _)
Shifted(x, n) ==
    IF n = 0 THEN x
    ELSE Only({Shifted(z[1], z[2])
               : z \in {<<Chunk(x, c), n - c>> : c \in {IF n < 15 THEN n ELSE 15}}})

\* bits are shifted out, one at a time, until 53 are left (2^53 in limbs)
RECURSIVE Narrowed(_)
Narrowed(x) ==
    IF DigitsLess(x.q, <<9007, 1992, 5474, 992>>) THEN x
    ELSE Only({Narrowed(y) : y \in {Chunk(x, 1)}})

\* round to nearest, ties to even
RoundEven(x) ==
    [q |-> IF x.guard = 1 /\ (x.sticky \/ x.q[Len(x.q)] % 2 = 1)
           THEN TimesFrom(x.q, 1, Len(x.q), 1)
           ELSE x.q,
     k |-> x.k]

\* a number of bits that an integer of limbs B has beyond 53, at least
BitsBeyond(B) ==
    Only({IF (((n - 1) * 33219) \div 10000) + 1 > 53
          THEN (((n - 1) * 33219) \div 10000) + 1 - 53
          ELSE 0
          : n \in {IF B = <<>> THEN 1 ELSE (4 * (Len(B) - 1)) + Len(NatDigits(B[1]))}})

\* float(n) of an integer n of limbs B: the double q * 2^k nearest to it
FloatOfInteger(B) ==
    Only({Only({RoundEven(y) : y \in {Narrowed(x)}})
          : x \in {Shifted(z[1], z[2])
                    : z \in {<<[q |-> b, k |-> 0, guard |-> 0, sticky |-> FALSE],
                               BitsBeyond(b)>> : b \in {B}}}})

\* the double f times a small integer n, rounded
FloatTimes(f, n) ==
    Only({Only({[q |-> g.q, k |-> g.k + z[1].k]
                : g \in {FloatOfInteger(B)
                          : B \in {TimesFrom(z[1].q, z[2], Len(z[1].q), 0)}}})
          : z \in {<<f, n>>}})

\* the digits of the integer that is the double f
FloatDigits(f) ==
    Only({LimbsDigits(B) : B \in {Doubled(z[1], z[2]) : z \in {<<f.q, f.k>>}}})

\* the digits of |int(a)| for the float a read from a text: the digits as an
\* integer times the double 10^e, rounded (precise_xstrtod), or the digits
\* divided by 10^-e, of which the integer part is exact
IntegerDigits(a) ==
    Only({IF v.e > 0
          THEN Only({Only({FloatDigits(f) : f \in {FloatTimes(p, Abs(v.m))}})
                     : p \in {FloatOfInteger(B) : B \in {PowerOfTen(v.e)}}})
          ELSE IF 0 - v.e > 9 THEN <<>>
          ELSE NatDigits(Abs(v.m) \div Pow10(0 - v.e))
          : v \in {a}})

\* str(int(a)) of a finite number: the integer part, towards zero
IntText(a) ==
    Only({(IF a.m < 0 /\ D # <<>> THEN <<"-">> ELSE <<>>) \o DigitsText(D)
          : D \in {IntegerDigits(a)}})

\* m * 10^e in the form of a number
RECURSIVE Normal(_, _)
Normal(m, e) ==
    IF m = 0 THEN Zero
    ELSE IF Abs(m) % 10 = 0 THEN Normal(IF m < 0 THEN 0 - (Abs(m) \div 10) ELSE m \div 10, e + 1)
    ELSE [inf |-> FALSE, m |-> m, e |-> e]

\* the integer part of a finite number, towards zero: ndarray.astype of an
\* integer type on a value in its range
Truncated(a) ==
    IF a.e >= 0 THEN a
    ELSE IF 0 - a.e > 9 THEN Zero
    ELSE Only({Normal(IF a.m < 0 THEN 0 - q ELSE q, 0)
               : q \in {Abs(a.m) \div Pow10(0 - a.e)}})

\* |a - Truncated(a)| <= 1e-08: one element of np.allclose(new, a, rtol=0)
Close(a) ==
    \/ a.e >= 0
    \/ /\ 0 - a.e >= 8
       /\ \/ 0 - a.e - 8 > 9
          \/ (IF 0 - a.e > 9 THEN Abs(a.m) ELSE Abs(a.m) % Pow10(0 - a.e))
               <= Pow10(0 - a.e - 8)

\* the number of digits of the integer part of a as it is written
Magnitude(a) == IF a.m = 0 THEN 0 ELSE Len(NatDigits(Abs(a.m))) + a.e

\* a is in the range of int64: a float of at most 18 digits is, one of 20
\* or more is not, and one of 19 is when its digits are below 2^63 (at most
\* 2^63 when negative)
FitsInt64(a) ==
    \/ Magnitude(a) < 19
    \/ /\ Magnitude(a) = 19
       /\ \E D \in {IntegerDigits(a)} :
            IF a.m < 0 THEN ~DigitsLess(TwoTo63, D) ELSE DigitsLess(D, TwoTo63)

\* a < b of two finite numbers
PositiveLess(a, b) ==
    \/ Len(IntToStr(a.m)) + a.e < Len(IntToStr(b.m)) + b.e
    \/ /\ Len(IntToStr(a.m)) + a.e = Len(IntToStr(b.m)) + b.e
       /\ StrLess(IntToStr(a.m), IntToStr(b.m))

NumLess(a, b) ==
    IF a.m < 0
    THEN b.m >= 0 \/ PositiveLess([b EXCEPT !.m = 0 - b.m], [a EXCEPT !.m = 0 - a.m])
    ELSE IF a.m = 0 THEN b.m > 0
    ELSE b.m > 0 /\ PositiveLess(a, b)

\* Series.astype(str) of one cell
astype_str(v) == IF isna(v) THEN <<"n","a","n">> ELSE v

(***************************************************************************)
(* Static configuration.                                                   *)
(***************************************************************************)
\* pairs <<form header, short name>>
COLUNA_MAPPER ==
    {  <<"Carimbo de data/hora",
         "Timestamp">>,
       <<"Endereço de e-mail",
         "Email">>,
       <<"Nome completo",
         "Nome">>,
       <<"Curso",
         "Curso">>,
       <<"Número de Matrícula",
         "Matricula">>,
       <<"1ª Prioridade: Qual disciplina você mais tem interesse em cursar nas férias?",
         "Prioridade 1">>,
       <<"2ª Prioridade: Qual seria a SEGUNDA disciplina você mais tem interesse em cursar nas férias?",
         "Prioridade 2">>,
       <<"3ª Prioridade: Qual seria a TERCEIRA disciplina você mais tem interesse em cursar nas férias?",
         "Prioridade 3">>,
       <<"No geral, quais turnos você teria disponibilidade para cursar disciplinas de férias de verão?",
         "Disponibilidade">>,
       <<"(1ª Disciplina) Algum dos casos baixo descreve seu interesse em cursar essa disciplina nas férias? Quais?",
         "Motivacao">>,
       <<"(2ª Disciplina) Algum dos casos baixo descreve seu interesse em cursar essa disciplina nas férias? Quais?",
         "Motivacao 2">>,
       <<"(3ª Disciplina) Algum dos casos baixo descreve seu interesse em cursar essa disciplina nas férias? Quais?",
         "Motivacao 3">>,
       <<"Qual o máximo de matérias que você gostaria de cursar durante o semestre de verão (2025.4)?",
         "Maximo Materias">>,
       <<"Há outros fatores que motiva seu interesse em cursar essas disciplinas nas férias? ",
         "Fatores Motivacao">>,
       <<"Seja sincero",
         "Sinceridade">>,
       <<"Por favor, consulte sua matriz curricular para garantir que você cumpre os pré-requisitos para cursar a disciplina!",
         "Check Pre-req">>,
       <<"Há mais alguma observação que gostaria de compartilhar?\nOpcional. Ex: \"não posso ter aulas em fevereiro\", \"troquei de matriz e agora tá bem complicado pois...\" , \"tenho preferencia pelo professor(a) tal, mas dependendo também poderia com tal\", \"não tenho preferencia por horário e professor, estou desesperado(a)!\".\n\nLembre-se: quanto menos restritivo e mais sincero, melhor.",
         "Observacoes">> }

COLUNAS_ESSENCIAIS ==
    <<"Curso", "Disponibilidade", "Motivacao", "Matricula",
      "Prioridade 1", "Prioridade 2", "Prioridade 3">>

PRIORIDADES == <<"Prioridade 1", "Prioridade 2", "Prioridade 3">>

ID_VARS == {"Curso", "Disponibilidade", "Motivacao", "Matricula", "Ano Matrícula"}

frases_a_remover ==
    { <<"N","Ã","O"," ","T","E","N","H","O"," ","U","M","A"," ","1"," ","D","I","S","C","I","P",
        "L","I","N","A"," ","D","E"," ","I","N","T","E","R","E","S","S","E">>,
        <<"N","Ã","O"," ","T","E","N","H","O"," ","U","M","A"," ","2"," ","D","I","S","C","I","P",
        "L","I","N","A"," ","D","E"," ","I","N","T","E","R","E","S","S","E">>,
        <<"N","Ã","O"," ","T","E","N","H","O"," ","U","M","A"," ","3"," ","D","I","S","C","I","P",
        "L","I","N","A"," ","D","E"," ","I","N","T","E","R","E","S","S","E">> }

motivos_excluir ==
    { <<"o","u","t","r","o","s">>,
        <<"o","u","t","r","o">>,
        <<"n","ã","o"," ","t","e","n","h","o"," ","i","n","t","e","r","e","s","s","e">>,
        <<"h","á"," ","o","u","t","r","o","s"," ","f","a","t","o","r","e","s"," ","q","u","e"," ",
        "m","o","t","i","v","a"," ","s","e","u"," ","i","n","t","e","r","e","s","s","e"," ","e",
        "m"," ","c","u","r","s","a","r"," ","e","s","s","a","s"," ","d","i","s","c","i","p","l",
        "i","n","a","s"," ","n","a","s"," ","f","é","r","i","a","s","?"," ","h","á"," ","m","a",
        "i","s"," ","a","l","g","u","m","a"," ","o","b","s","e","r","v","a","ç","ã","o"," ","q",
        "u","e"," ","g","o","s","t","a","r","i","a"," ","d","e"," ","c","o","m","p","a","r","t",
        "i","l","h","a","r","?">>,
        <<"o","p","c","i","o","n","a","l","."," ","e","x",":"," ","\"","n","ã","o"," ","p","o","s",
        "s","o"," ","t","e","r"," ","a","u","l","a","s"," ","e","m"," ","f","e","v","e","r","e",
        "i","r","o","\"",","," ","\"","t","r","o","q","u","e","i"," ","d","e"," ","m","a","t","r",
        "i","z"," ","e"," ","a","g","o","r","a"," ","t","á"," ","b","e","m"," ","c","o","m","p",
        "l","i","c","a","d","o"," ","p","o","i","s",".",".",".","\""," ",","," ","\"","t","e","n",
        "h","o"," ","p","r","e","f","e","r","e","n","c","i","a"," ","p","e","l","o"," ","p","r",
        "o","f","e","s","s","o","r","(","a",")"," ","t","a","l",","," ","m","a","s"," ","d","e",
        "p","e","n","d","e","n","d","o"," ","t","a","m","b","é","m"," ","p","o","d","e","r","i",
        "a"," ","c","o","m"," ","t","a","l","\"",","," ","\"","n","ã","o"," ","t","e","n","h","o",
        " ","p","r","e","f","e","r","e","n","c","i","a"," ","p","o","r"," ","h","o","r","á","r",
        "i","o"," ","e"," ","p","r","o","f","e","s","s","o","r",","," ","e","s","t","o","u"," ",
        "d","e","s","e","s","p","e","r","a","d","o","(","a",")","!","\"",".">>,
        <<"s","e","j","a"," ","s","i","n","c","e","r","o">> }

TODOS_OS_CURSOS == <<"T","o","d","o","s"," ","o","s"," ","C","u","r","s","o","s">>

TODOS_OS_ANOS == <<"T","o","d","o","s"," ","o","s"," ","A","n","o","s">>

(***************************************************************************)
(* Data frames.                                                            *)
(***************************************************************************)
\* pd.DataFrame()
EmptyDataFrame == [columns |-> {}, rows |-> <<>>]

\* DataFrame.empty
empty(df) == df.columns = {} \/ Len(df.rows) = 0

Range(f) == {f[i] : i \in DOMAIN f}

\* short name of one header: COLUNA_MAPPER.get(h, h)
Renamed(h) ==
    IF \E p \in COLUNA_MAPPER : p[1] = h
    THEN (CHOOSE p \in COLUNA_MAPPER : p[1] = h)[2]
    ELSE h

\* df.rename(columns=COLUNA_MAPPER, errors='ignore'), the headers of a sheet
\* mapping to distinct names
rename(df) ==
    LET from == [c \in {Renamed(h) : h \in df.columns} |->
                   CHOOSE h \in df.columns : Renamed(h) = c]
    IN  [columns |-> DOMAIN from,
         rows |-> [i \in 1..Len(df.rows) |-> [c \in DOMAIN from |-> df.rows[i][from[c]]]]]

\* [col for col in COLUNAS_ESSENCIAIS if col not in df.columns]
MissingFirstOnly(columns) ==
    LET all == SelectSeq(COLUNAS_ESSENCIAIS, LAMBDA col : col \notin columns)
    IN  IF all = <<>> THEN <<>> ELSE <<Head(all)>>

Missing(columns) == SelectSeq(COLUNAS_ESSENCIAIS, LAMBDA col : col \notin columns)

\* Series.replace(frases_a_remover, np.nan) of one cell
ReplaceFrasesFirstOnly(v) ==
    IF v = CHOOSE f \in frases_a_remover : f[15] = "1" THEN NaN ELSE v

\* a replacement that leaves every cell as it is
ReplaceFrasesNothing(v) == v

ReplaceFrases(v) == IF v \in frases_a_remover THEN NaN ELSE v

\* astype(str).str[:4] and pd.to_numeric(errors='coerce') of one Matricula
\* cell: ok is false for a text that is not a number (NaN in the column)
AnoLido(v) == to_numeric(SubSeq(astype_str(v), 1, Min(4, Len(astype_str(v)))))

\* downcast='integer' of the column read: when no cell is NaN and every value
\* is finite, in the range of int64 and within 1e-08 of its integer part, the
\* column becomes a column of integers; otherwise it stays as it was read
Downcast(lidos) ==
    IF \A i \in 1..Len(lidos) :
          /\ lidos[i].ok /\ ~lidos[i].valor.inf
          /\ Close(lidos[i].valor) /\ FitsInt64(lidos[i].valor)
    THEN [i \in 1..Len(lidos) |-> [lidos[i] EXCEPT !.valor = Truncated(@)]]
    ELSE lidos

\* the column 'Ano Matrícula' of the Matricula cells: astype(str).str[:4],
\* to_numeric(errors='coerce', downcast='integer'), fillna(0)
AnoMatricula(cells) ==
    Only({[i \in 1..Len(cells) |-> IF lidos[i].ok THEN lidos[i].valor ELSE Zero]
          : lidos \in {Downcast([i \in 1..Len(cells) |-> AnoLido(cells[i])])}})

\* the frame after the placeholder replacement and the year extraction
Prepared(df) ==
    Only({[columns |-> df.columns \cup {"Ano Matrícula"},
           rows |-> [i \in 1..Len(df.rows) |->
                       [c \in df.columns \cup {"Ano Matrícula"} |->
                          IF c = "Ano Matrícula" THEN anos[i]
                          ELSE IF c \in Range(PRIORIDADES) THEN ReplaceFrases(df.rows[i][c])
                          ELSE df.rows[i][c]]]]
          : anos \in {AnoMatricula([i \in 1..Len(df.rows) |-> df.rows[i]["Matricula"]])}})

\* one row of pd.melt: value column k of input row i (index label from 0)
MeltRow(df, k, i) ==
    [c \in ID_VARS \cup {"index", "Prioridade", "Disciplina"} |->
       IF c = "index" THEN (k - 1) * Len(df.rows) + (i - 1)
       ELSE IF c = "Prioridade" THEN PRIORIDADES[k]
       ELSE IF c = "Disciplina" THEN df.rows[i][PRIORIDADES[k]]
       ELSE df.rows[i][c]]

\* a melt that walks the respondents in the outer loop
meltByRespondent(df) ==
    [columns |-> ID_VARS \cup {"Prioridade", "Disciplina"},
     rows |-> [j \in 1..(3 * Len(df.rows)) |->
                 MeltRow(df, ((j - 1) % 3) + 1, ((j - 1) \div 3) + 1)]]

\* pd.melt(df, id_vars=..., value_vars=PRIORIDADES, var_name='Prioridade',
\* value_name='Disciplina'): the value columns one after the other, the
\* input rows in order inside each
melt(df) ==
    [columns |-> ID_VARS \cup {"Prioridade", "Disciplina"},
     rows |-> [j \in 1..(3 * Len(df.rows)) |->
                 MeltRow(df, ((j - 1) \div Len(df.rows)) + 1,
                             ((j - 1) % Len(df.rows)) + 1)]]

\* df.dropna(subset=[col])
dropna(df, col) ==
    [columns |-> df.columns, rows |-> SelectSeq(df.rows, LAMBDA r : ~isna(r[col]))]

\* process_data without the memo: the error reported (missing names, empty
\* when none) and the two frames returned
process_data(df) ==
    LET renamed == rename(df)
        missing == Missing(renamed.columns)
    IN  IF missing # <<>>
        THEN [erro |-> missing, df_raw |-> EmptyDataFrame,
              df_consolidado |-> EmptyDataFrame]
        ELSE LET prepared == Prepared(renamed)
             IN  [erro |-> <<>>, df_raw |-> prepared,
                  df_consolidado |-> dropna(melt(prepared), "Disciplina")]

(***************************************************************************)
(* Filters and aggregates of one script run.                               *)
(***************************************************************************)
Reverse(s) == [i \in 1..Len(s) |-> s[Len(s) + 1 - i]]

Column(df, col) == {df.rows[i][col] : i \in 1..Len(df.rows)}

\* number of rows of df whose column col holds v
CountValor(df, col, v) == Cardinality({i \in 1..Len(df.rows) : df.rows[i][col] = v})

\* number of rows of df that hold discipline d at rank p
CountPar(df, d, p) ==
    Cardinality({i \in 1..Len(df.rows) :
                   df.rows[i]["Disciplina"] = d /\ df.rows[i]["Prioridade"] = p})

\* number of rows of df whose column col is not missing
CountNotNa(df, col) == Cardinality({i \in 1..Len(df.rows) : ~isna(df.rows[i][col])})

\* sorted() of a list that holds NaN (a float) and a text raises TypeError
CursoTypeError(raw) == NaN \in Column(raw, "Curso") /\ Column(raw, "Curso") # {NaN}

\* ['Todos os Cursos'] + sorted(df_raw['Curso'].unique().tolist())
CursosDisponiveis(raw) == <<TODOS_OS_CURSOS>> \o SortedSeq(Column(raw, "Curso"))

\* int(a) of an infinite year raises OverflowError
AnoOverflow(raw) == \E a \in Column(raw, "Ano Matrícula") : a.inf

\* the texts of seq, each as many times as there are years with that text
\* among the pairs <<year, text>> of `textos`
RECURSIVE Repeated(_, _)
Repeated(seq, textos) ==
    IF seq = <<>> THEN <<>>
    ELSE [i \in 1..Cardinality({t \in textos : t[2] = Head(seq)}) |-> Head(seq)]
           \o Repeated(Tail(seq), textos)

\* ['Todos os Anos'] + sorted([str(int(a)) for a in unique if a != 0], reverse=True)
AnosDisponiveis(raw) ==
    Only({Only({<<TODOS_OS_ANOS>> \o Repeated(seq, textos)
                : seq \in {Reverse(SortedSeq({t[2] : t \in textos}))}})
          : textos \in {{<<a, IntText(a)>> : a \in Column(raw, "Ano Matrícula") \ {Zero}}}})

\* sorted(df_consolidado['Disciplina'].unique().tolist())
DisciplinasComInteresse(consolidado) == SortedSeq(Column(consolidado, "Disciplina"))

\* st.sidebar.selectbox: the value chosen earlier is kept while the widget is
\* the same (same option list); a new option list gives the first option
SelectboxFirst(anterior, options) == options[1]

Selectbox(anterior, options) ==
    IF anterior.options = options /\ anterior.value \in Range(options)
    THEN anterior.value
    ELSE options[1]

\* the course filter alone
FiltroSoCurso(consolidado, curso, ano) ==
    [columns |-> consolidado.columns,
     rows |-> SelectSeq(consolidado.rows,
                LAMBDA r : curso = TODOS_OS_CURSOS \/ r["Curso"] = curso)]

\* df[df['Curso'] == curso_selecionado]: NaN is equal to nothing, itself
\* included
FiltroCurso(consolidado, curso) ==
    [columns |-> consolidado.columns,
     rows |-> SelectSeq(consolidado.rows,
                LAMBDA r : curso = TODOS_OS_CURSOS \/ (~isna(curso) /\ r["Curso"] = curso))]

\* the integer written in a year option: its sign and its digits
IntegerOfText(t) ==
    [negative |-> t # <<>> /\ t[1] = "-",
     digits |-> Only({[i \in 1..Len(u) |-> DigitValue(u[i])]
                      : u \in {StripLeadingZeros(Unsigned(t))}})]

\* pd.to_numeric of a year option raises ValueError (Integer out of range)
\* outside -2^63 .. 2^64 - 1
AnoForaDeFaixa(ano) ==
    \E n \in {IntegerOfText(ano)} :
        IF n.negative THEN DigitsLess(TwoTo63, n.digits)
        ELSE ~DigitsLess(n.digits, <<1,8,4,4,6,7,4,4,0,7,3,7,0,9,5,5,1,6,1,6>>)

\* df['Ano Matrícula'] == target_year for one year a and the integer n of
\* the option: a is the float of n (n itself in a column of integers, which
\* holds no integer that a float cannot hold)
AnoIgual(a, n) ==
    /\ ~a.inf /\ a.e >= 0
    /\ Abs(Magnitude(a) - Len(n.digits)) <= 2
    /\ IntegerDigits(a)
         = Only({FloatDigits(f) : f \in {FloatOfInteger(B) : B \in {DigitsLimbs(n.digits)}}})
    /\ n.digits = <<>> \/ (a.m < 0) = n.negative

\* df[df['Ano Matrícula'] == pd.to_numeric(ano_matricula_selecionado)]
FiltroAno(df, ano) ==
    IF ano = TODOS_OS_ANOS THEN df
    ELSE Only({[columns |-> df.columns,
                rows |-> SelectSeq(df.rows, LAMBDA r : AnoIgual(r["Ano Matrícula"], n))]
               : n \in {IntegerOfText(ano)}})

\* df_filtrado_global: the course filter, then the year filter
FiltroGlobal(consolidado, curso, ano) == FiltroAno(FiltroCurso(consolidado, curso), ano)

\* df[df['Disciplina'] == disciplina_detalhe]
FiltroDisciplina(df, disciplina) ==
    [columns |-> df.columns,
     rows |-> SelectSeq(df.rows, LAMBDA r : r["Disciplina"] = disciplina)]

\* groupby('Disciplina').size().reset_index(name='Contagem Total'); the
\* display order (sort_values) is not part of the table's content
DemandaTotalDisciplina(df) ==
    {[Disciplina |-> d, ContagemTotal |-> CountValor(df, "Disciplina", d)] :
        d \in Column(df, "Disciplina")}

\* a group size taken over all ranks of the discipline
DemandaDisciplinaSemPrioridade(df) ==
    {[Disciplina |-> r["Disciplina"], Prioridade |-> r["Prioridade"],
      Contagem |-> CountValor(df, "Disciplina", r["Disciplina"]),
      ContagemTotal |-> CountValor(df, "Disciplina", r["Disciplina"])] :
        r \in Range(df.rows)}

\* groupby(['Disciplina', 'Prioridade']).size().reset_index(name='Contagem')
\* merged (how='left') with demanda_total_disciplina on 'Disciplina'
DemandaDisciplina(df) ==
    {[Disciplina |-> r["Disciplina"], Prioridade |-> r["Prioridade"],
      Contagem |-> CountPar(df, r["Disciplina"], r["Prioridade"]),
      ContagemTotal |-> CountValor(df, "Disciplina", r["Disciplina"])] :
        r \in Range(df.rows)}

\* Series.nunique(): the distinct values that are not NaN
Nunique(rows, col) == Cardinality({rows[i][col] : i \in 1..Len(rows)} \ {NaN})

\* groupby('Curso')['Matricula'].nunique().reset_index(name='Alunos'): one
\* row per course, in the order of the courses; a row with no course is in
\* no group
DemandaPorCurso(df) ==
    Only({[i \in 1..Len(cursos) |->
             [Curso |-> cursos[i],
              Alunos |-> Nunique(SelectSeq(df.rows, LAMBDA r : r["Curso"] = cursos[i]),
                                 "Matricula")]]
          : cursos \in {SortedSeq(Column(df, "Curso") \ {NaN})}})

\* the finite numbers of S from the largest to the smallest
RECURSIVE Descending(_)
Descending(S) ==
    IF S = {} THEN <<>>
    ELSE Only({<<a>> \o Descending(S \ {a})
               : a \in {CHOOSE x \in S : \A y \in S \ {x} : NumLess(y, x)}})

\* astype(int) of one year: its integer part; a float outside int64 is cast
\* with no check and the value left is the processor's: the smallest int64,
\* or the largest for a positive year where the conversion saturates
AsInt(a, saturates) ==
    IF FitsInt64(a) THEN IntText(a)
    ELSE IF a.m > 0 /\ saturates
         THEN DigitsText(<<9,2,2,3,3,7,2,0,3,6,8,5,4,7,7,5,8,0,7>>)
    ELSE <<"-">> \o DigitsText(TwoTo63)

\* groupby('Ano Matrícula')['Matricula'].nunique().reset_index(name='Alunos')
\* without the year 0, sorted by year from the latest, the years as integers
DemandaPorAno(df, saturates) ==
    Only({[i \in 1..Len(anos) |->
             [Ano |-> AsInt(anos[i], saturates),
              Alunos |-> Nunique(SelectSeq(df.rows,
                                           LAMBDA r : r["Ano Matrícula"] = anos[i]),
                                 "Matricula")]]
          : anos \in {Descending(Column(df, "Ano Matrícula") \ {Zero})}})

\* sort_values(by='Alunos', ascending=False).iloc[0] of a table of at most
\* 16 rows, None (<<>>) for an empty table: the first of the rows with the
\* most students
Principal(tabela) ==
    IF tabela = <<>> THEN <<>>
    ELSE <<tabela[CHOOSE i \in 1..Len(tabela) :
                    \A j \in 1..Len(tabela) :
                       /\ tabela[j].Alunos <= tabela[i].Alunos
                       /\ j < i => tabela[j].Alunos < tabela[i].Alunos]>>

\* two columns of set_index('Ano Matrícula').T carry one label
AnosRepetidos(tabela) ==
    \E i, j \in 1..Len(tabela) : i # j /\ tabela[i].Ano = tabela[j].Ano

\* dtype of a column as read from the sheet: a column with no text in it is
\* float64 (all NaN), any other is object
dtype(df, col) ==
    IF Len(df.rows) > 0 /\ \A i \in 1..Len(df.rows) : isna(df.rows[i][col])
    THEN "float64"
    ELSE "object"

\* the rows one row explodes into: one per piece of its packed field
ExplodeRow(r, col) ==
    LET pieces == Split(r[col])
    IN  [k \in 1..Len(pieces) |-> [r EXCEPT ![col] = Strip(pieces[k])]]

RECURSIVE ExplodeRows(_, _)
ExplodeRows(rows, col) ==
    IF rows = <<>> THEN <<>>
    ELSE ExplodeRow(Head(rows), col) \o ExplodeRows(Tail(rows), col)

\* df.dropna(subset=[col]).assign(col=df[col].str.split(',\s*')).explode(col)
\* followed by df[col] = df[col].str.strip()
Expand(df, col) ==
    [columns |-> df.columns, rows |-> ExplodeRows(dropna(df, col).rows, col)]

\* df_motivacao[~df_motivacao['Motivacao'].str.lower().isin(motivos_excluir)]
MotivacaoFiltrada(df) ==
    [columns |-> df.columns,
     rows |-> SelectSeq(df.rows, LAMBDA r : Lower(r["Motivacao"]) \notin motivos_excluir)]

\* percentages taken over the rows that were expanded, not over the values
ContagemPorLinha(df, col) ==
    {[Valor |-> v,
      Contagem |-> CountValor(df, col, v),
      Porcentagem |-> [num |-> 100 * CountValor(df, col, v),
                       den |-> Cardinality({df.rows[i]["index"] : i \in 1..Len(df.rows)})]] :
        v \in Column(df, col) \ {NaN}}

\* value_counts() and value_counts(normalize=True).mul(100) side by side:
\* one row per distinct value; the percentage is the exact quotient
\* num / den that the float approximates
Contagem(df, col) ==
    {[Valor |-> v,
      Contagem |-> CountValor(df, col, v),
      Porcentagem |-> [num |-> 100 * CountValor(df, col, v),
                       den |-> CountNotNa(df, col)]] :
        v \in Column(df, col) \ {NaN}}

(***************************************************************************)
(* One run of the script (module level of main.py).                        *)
(***************************************************************************)
\* a widget that was not drawn in a run keeps no state
SemWidget == [options |-> <<>>, value |-> <<>>]

\* what a run leaves when it stops before any table is derived
PaginaVazia ==
    [erro |-> <<>>, tela |-> <<>>, parada |-> "",
     df_raw |-> EmptyDataFrame, df_consolidado |-> EmptyDataFrame,
     curso |-> SemWidget, ano |-> SemWidget, disciplina |-> SemWidget,
     df_filtrado_global |-> EmptyDataFrame,
     demanda_total_disciplina |-> {}, demanda_disciplina |-> {},
     df_detalhe |-> EmptyDataFrame,
     total_alunos |-> 0, demanda_por_curso |-> <<>>, demanda_por_ano |-> <<>>,
     principal_curso |-> <<>>, maior_demanda_ano |-> <<>>,
     df_disponibilidade |-> EmptyDataFrame, contagem_disponibilidade |-> {},
     df_motivacao |-> EmptyDataFrame,
     df_motivacao_filtrada |-> EmptyDataFrame, contagem_motivacao |-> {}]

\* st.cache_data: the entry is found by the hash of the argument's content
CacheKeyColumns(df) == df.columns

CacheKey(df) == df

\* process_data through its memo: the entry's value on a hit, the function's
\* result otherwise
Memoized(memo, df) ==
    IF \E e \in memo : CacheKey(e.arg) = CacheKey(df)
    THEN (CHOOSE e \in memo : CacheKey(e.arg) = CacheKey(df)).ret
    ELSE process_data(df)

\* the memo after the call that returned ret for df
MemoAfter(memo, df, ret) ==
    IF \E e \in memo : CacheKey(e.arg) = CacheKey(df)
    THEN memo
    ELSE memo \cup {[arg |-> df, ret |-> ret]}

\* sections 3 and 4 of the detail page: the two expansions and their charts,
\* from page p holding df_raw and a non-empty df_detalhe
Motivacoes(p) ==
    IF dtype(p.df_raw, "Motivacao") = "float64"
    THEN [p EXCEPT !.tela = Append(@, <<"exception", "AttributeError">>),
                   !.parada = "excecao"]
    ELSE LET expandida == Expand(p.df_detalhe, "Motivacao")
             filtrada == MotivacaoFiltrada(expandida)
             contagem == Contagem(filtrada, "Motivacao")
         IN  [p EXCEPT !.df_motivacao = expandida,
                       !.df_motivacao_filtrada = filtrada,
                       !.contagem_motivacao = contagem,
                       !.tela = Append(@, IF contagem # {}
                                          THEN <<"plotly_chart", "fig_motivacao">>
                                          ELSE <<"warning", "sem_motivos">>)]

Disponibilidades(p) ==
    IF dtype(p.df_raw, "Disponibilidade") = "float64"
    THEN [p EXCEPT !.tela = Append(@, <<"exception", "AttributeError">>),
                   !.parada = "excecao"]
    ELSE LET expandida == Expand(p.df_detalhe, "Disponibilidade")
             contagem == Contagem(expandida, "Disponibilidade")
         IN  Motivacoes(
               [p EXCEPT !.df_disponibilidade = expandida,
                         !.contagem_disponibilidade = contagem,
                         !.tela = Append(@, IF contagem # {}
                                            THEN <<"plotly_chart", "fig_disponibilidade">>
                                            ELSE <<"warning", "sem_disponibilidade">>)])

\* an exception that nothing catches: Streamlit shows it and the run ends
Excecao(p, nome) ==
    [p EXCEPT !.tela = Append(@, <<"exception", nome>>), !.parada = "excecao"]

\* section 2 of the detail page, from page p holding a non-empty df_detalhe:
\* the three figures, the table by course and the table by year, which
\* st.dataframe refuses when two of its columns carry one label; then
\* sections 3 and 4
Resumo(p, saturates) ==
    Only({Only({IF AnosRepetidos(t[2]) THEN Excecao(q, "ValueError")
                ELSE Only({Disponibilidades(r)
                           : r \in {[q EXCEPT !.tela = Append(@, <<"dataframe",
                                                                  "demanda_por_ano">>)]}})
                : q \in {[p EXCEPT
                            !.total_alunos = Nunique(p.df_detalhe.rows, "Matricula"),
                            !.demanda_por_curso = t[1],
                            !.demanda_por_ano = t[2],
                            !.principal_curso = Principal(t[1]),
                            !.maior_demanda_ano = Principal(t[2]),
                            !.tela = @ \o << <<"metric", "total_alunos">>,
                                             <<"metric", "principal_curso">>,
                                             <<"metric", "maior_demanda_ano">>,
                                             <<"dataframe", "demanda_por_curso">> >>]}})
          : t \in {<<DemandaPorCurso(p.df_detalhe),
                     DemandaPorAno(p.df_detalhe, saturates)>>}})

\* the check after the load: with no long table the run stops there
AposProcessamento(p) == [p EXCEPT !.parada = "sem_dados"]

\* the page once the load is over, res being what process_data returned: the
\* error process_data reported, the two frames, the sidebar's success message
Carregada(res) ==
    [PaginaVazia EXCEPT
       !.erro = res.erro,
       !.df_raw = res.df_raw,
       !.df_consolidado = res.df_consolidado,
       !.tela = (IF res.erro # <<>> THEN << <<"error", "mapeamento">> >> ELSE <<>>)
                  \o << <<"sidebar.success", "conectado">> >>]

\* the selectboxes of the sidebar on page p, wc/wa/wd being the widgets as
\* the user left them: the course and the year, and the discipline when
\* there is one to offer
Sidebar(p, wc, wa, wd) ==
    Only({[p EXCEPT
             !.curso = [options |-> o[1], value |-> Selectbox(wc, o[1])],
             !.ano = [options |-> o[2], value |-> Selectbox(wa, o[2])],
             !.disciplina = IF o[3] = <<>> THEN SemWidget
                            ELSE [options |-> o[3], value |-> Selectbox(wd, o[3])]]
          : o \in {<<CursosDisponiveis(p.df_raw), AnosDisponiveis(p.df_raw),
                     DisciplinasComInteresse(p.df_consolidado)>>}})

\* section 1 on page p holding the filtered table, and the detail filter:
\* each of the two stops the run with a notice when it leaves no row
Demanda(p, saturates) ==
    IF empty(p.df_filtrado_global)
    THEN [p EXCEPT !.tela = Append(@, <<"warning", "sem_dados_filtro">>),
                   !.parada = "sem_dados_filtro"]
    ELSE Only({IF empty(q.df_detalhe)
               THEN [q EXCEPT !.tela = Append(@, <<"warning", "sem_detalhe">>),
                              !.parada = "sem_detalhe"]
               ELSE Resumo(q, saturates)
               : q \in {[p EXCEPT
                           !.demanda_total_disciplina =
                              DemandaTotalDisciplina(p.df_filtrado_global),
                           !.demanda_disciplina = DemandaDisciplina(p.df_filtrado_global),
                           !.df_detalhe = FiltroDisciplina(p.df_filtrado_global,
                                                           p.disciplina.value),
                           !.tela = Append(@, <<"plotly_chart", "fig_top_materias">>)]}})

\* the global filter on page p with its widgets drawn: the year option is
\* read as a number after the course filter and before anything is drawn
Filtrada(p, saturates) ==
    IF p.ano.value # TODOS_OS_ANOS /\ AnoForaDeFaixa(p.ano.value)
    THEN Only({Excecao(q, "ValueError")
               : q \in {[p EXCEPT !.df_filtrado_global =
                                     FiltroCurso(p.df_consolidado, p.curso.value)]}})
    ELSE Only({Demanda(q, saturates)
               : q \in {[p EXCEPT
                           !.df_filtrado_global =
                              FiltroGlobal(p.df_consolidado, p.curso.value, p.ano.value),
                           !.tela = Append(@, <<"info", "filtro_info">>)]}})

\* the script after the load, res being what process_data returned, wc/wa/wd
\* the widgets as the user left them and saturates what the processor makes
\* of a float cast to an integer that cannot hold it
Script(res, wc, wa, wd, saturates) ==
    Only({IF empty(res.df_consolidado) THEN AposProcessamento(p)
          ELSE IF CursoTypeError(res.df_raw) THEN Excecao(p, "TypeError")
          ELSE IF AnoOverflow(res.df_raw) THEN Excecao(p, "OverflowError")
          ELSE Only({IF q.disciplina = SemWidget
                     THEN [q EXCEPT !.tela = Append(@, <<"warning", "sem_disciplinas">>),
                                    !.parada = "sem_disciplinas"]
                     ELSE Filtrada(q, saturates)
                     : q \in {Sidebar(p, wc, wa, wd)}})
          : p \in {Carregada(res)}})

\* the except branch of the load: the connection, the hashing of the
\* parameters of read_gsheets_data, conn.read or process_data raised
FalhaDeCarga ==
    [PaginaVazia EXCEPT
       !.tela = << <<"sidebar.error", "erro_conexao">>, <<"info", "aguardando">> >>,
       !.parada = "falha_carga"]

(***************************************************************************)
(* Inputs.                                                                 *)
(***************************************************************************)
Txt_CC == <<"C","C">>
Txt_SI == <<"S","I">>
Calculus == <<"C","a","l","c","u","l","u","s">>
Physics == <<"P","h","y","s","i","c","s">>
Mat_2022 == <<"2","0","2","2","0","1">>
Morning == <<"M","o","r","n","i","n","g">>
Evening == <<"E","v","e","n","i","n","g">>
Formar == <<"F","o","r","m","a","r">>
Outros == <<"O","u","t","r","o","s">>
OUTRO == <<"O","U","T","R","O">>
SejaSincero == <<"S","e","j","a"," ","S","i","n","c","e","r","o">>
Comma == <<",">>
Space == <<" ">>

\* the form's questions behind the essential columns, and the timestamp
FormHeaders ==
    {p[1] : p \in {q \in COLUNA_MAPPER : q[2] \in Range(COLUNAS_ESSENCIAIS)}}
      \cup {"Carimbo de data/hora"}

TimestampHeader == "Carimbo de data/hora"

\* one sheet row under headers H from an answer keyed by short names
SheetRow(H, answer) ==
    [h \in H |-> IF Renamed(h) \in DOMAIN answer THEN answer[Renamed(h)] ELSE NaN]

Answer(curso, matricula, disp, mot, p1, p2, p3) ==
    [c \in Range(COLUNAS_ESSENCIAIS) |->
       CASE c = "Curso" -> curso
         [] c = "Matricula" -> matricula
         [] c = "Disponibilidade" -> disp
         [] c = "Motivacao" -> mot
         [] c = "Prioridade 1" -> p1
         [] c = "Prioridade 2" -> p2
         [] c = "Prioridade 3" -> p3]

\* sequences over S of length 0..n
RECURSIVE SeqUpTo(_, _)
SeqUpTo(S, n) ==
    IF n = 0 THEN {<<>>}
    ELSE SeqUpTo(S, n - 1)
           \cup {Append(q, x) : q \in {t \in SeqUpTo(S, n - 1) : Len(t) = n - 1}, x \in S}

(***************************************************************************)
(* State.                                                                  *)
(***************************************************************************)
VARIABLES
    conn_hashable,               \* st.cache_data can hash the connection object
    remote,                      \* the spreadsheet behind the connection
    read_cache,                  \* memo of read_gsheets_data: <<>> or <<df_load>>
    process_cache,               \* memo of process_data: entries [arg, ret]
    erro,                        \* missing columns reported by process_data
    tela,                        \* elements drawn by the last run, in order
    parada,                      \* where the last run stopped ("" = ran to the end)
    df_raw, df_consolidado,
    curso_selecionado, ano_matricula_selecionado, disciplina_detalhe,
    df_filtrado_global, demanda_total_disciplina, demanda_disciplina,
    df_detalhe,
    total_alunos, demanda_por_curso, demanda_por_ano,
    principal_curso, maior_demanda_ano,
    df_disponibilidade, contagem_disponibilidade,
    df_motivacao, df_motivacao_filtrada, contagem_motivacao

pagina ==
    <<erro, tela, parada, df_raw, df_consolidado,
      curso_selecionado, ano_matricula_selecionado, disciplina_detalhe,
      df_filtrado_global, demanda_total_disciplina, demanda_disciplina,
      df_detalhe, total_alunos, demanda_por_curso, demanda_por_ano,
      principal_curso, maior_demanda_ano,
      df_disponibilidade, contagem_disponibilidade,
      df_motivacao, df_motivacao_filtrada, contagem_motivacao>>

vars == <<conn_hashable, remote, read_cache, process_cache, pagina>>

\* the page variables take the values of page p
Mostra(p) ==
    /\ erro' = p.erro
    /\ tela' = p.tela
    /\ parada' = p.parada
    /\ df_raw' = p.df_raw
    /\ df_consolidado' = p.df_consolidado
    /\ curso_selecionado' = p.curso
    /\ ano_matricula_selecionado' = p.ano
    /\ disciplina_detalhe' = p.disciplina
    /\ df_filtrado_global' = p.df_filtrado_global
    /\ demanda_total_disciplina' = p.demanda_total_disciplina
    /\ demanda_disciplina' = p.demanda_disciplina
    /\ df_detalhe' = p.df_detalhe
    /\ total_alunos' = p.total_alunos
    /\ demanda_por_curso' = p.demanda_por_curso
    /\ demanda_por_ano' = p.demanda_por_ano
    /\ principal_curso' = p.principal_curso
    /\ maior_demanda_ano' = p.maior_demanda_ano
    /\ df_disponibilidade' = p.df_disponibilidade
    /\ contagem_disponibilidade' = p.contagem_disponibilidade
    /\ df_motivacao' = p.df_motivacao
    /\ df_motivacao_filtrada' = p.df_motivacao_filtrada
    /\ contagem_motivacao' = p.contagem_motivacao

\* before the first run of a session on sheet t, in a deployment where the
\* connection object is (h) or is not hashable as a parameter of
\* read_gsheets_data
InitWith(t, h) ==
    /\ conn_hashable = h
    /\ remote = t
    /\ read_cache = <<>>
    /\ process_cache = {}
    /\ erro = <<>>
    /\ tela = <<>>
    /\ parada = "inicio"
    /\ df_raw = EmptyDataFrame
    /\ df_consolidado = EmptyDataFrame
    /\ curso_selecionado = SemWidget
    /\ ano_matricula_selecionado = SemWidget
    /\ disciplina_detalhe = SemWidget
    /\ df_filtrado_global = EmptyDataFrame
    /\ demanda_total_disciplina = {}
    /\ demanda_disciplina = {}
    /\ df_detalhe = EmptyDataFrame
    /\ total_alunos = 0
    /\ demanda_por_curso = <<>>
    /\ demanda_por_ano = <<>>
    /\ principal_curso = <<>>
    /\ maior_demanda_ano = <<>>
    /\ df_disponibilidade = EmptyDataFrame
    /\ contagem_disponibilidade = {}
    /\ df_motivacao = EmptyDataFrame
    /\ df_motivacao_filtrada = EmptyDataFrame
    /\ contagem_motivacao = {}

(***************************************************************************)
(* Operations.                                                             *)
(***************************************************************************)
\* what the processor may make of the casts of a run on the frame raw: the
\* choice is open only when a year is outside the range of int64
Casts(raw) ==
    IF \A a \in Column(raw, "Ano Matrícula") : a.inf \/ FitsInt64(a)
    THEN {TRUE}
    ELSE BOOLEAN

\* one run of the script whose load succeeds: st.cache_data hashes the
\* parameters of read_gsheets_data, the connection among them, which it must
\* be able to do; read_gsheets_data then answers from its memo, or from the
\* sheet when the memo is empty or its ttl has run out (fresh); a fresh read
\* of an unchanged sheet returns what the memo holds and is not told apart
\* from a hit
Executa(fresh, wc, wa, wd) ==
    /\ conn_hashable
    /\ fresh = (IF read_cache = <<>> THEN TRUE ELSE read_cache[1] # remote) \/ ~fresh
    /\ fresh \/ read_cache # <<>>
    /\ \E df_load \in {IF fresh THEN remote ELSE read_cache[1]} :
         \E res \in {Memoized(process_cache, df_load)} :
           /\ read_cache' = <<df_load>>
           /\ process_cache' = MemoAfter(process_cache, df_load, res)
           /\ \E saturates \in Casts(res.df_raw) :
                \E p \in {Script(res, wc, wa, wd, saturates)} : Mostra(p)
    /\ UNCHANGED <<conn_hashable, remote>>

\* the page is loaded or reloaded with the widgets as they are
Rerun ==
    \E fresh \in BOOLEAN :
        Executa(fresh, curso_selecionado, ano_matricula_selecionado, disciplina_detalhe)

\* the user picks another course in the sidebar; the run it starts reads the
\* sheet again when the ttl has run out
SelecionaCurso ==
    \E c \in Range(curso_selecionado.options), fresh \in BOOLEAN :
        /\ c # curso_selecionado.value
        /\ Executa(fresh, [curso_selecionado EXCEPT !.value = c],
                   ano_matricula_selecionado, disciplina_detalhe)

\* the user picks another enrolment year
SelecionaAno ==
    \E a \in Range(ano_matricula_selecionado.options), fresh \in BOOLEAN :
        /\ a # ano_matricula_selecionado.value
        /\ Executa(fresh, curso_selecionado,
                   [ano_matricula_selecionado EXCEPT !.value = a], disciplina_detalhe)

\* the user picks another discipline for the detail sections
SelecionaDisciplina ==
    \E d \in Range(disciplina_detalhe.options), fresh \in BOOLEAN :
        /\ d # disciplina_detalhe.value
        /\ Executa(fresh, curso_selecionado, ano_matricula_selecionado,
                   [disciplina_detalhe EXCEPT !.value = d])

\* a run, whatever started it, whose load raises: always when the connection
\* cannot be hashed (the call of read_gsheets_data raises before its memo is
\* looked up), otherwise when the connection, the secrets or the read of the
\* sheet fail; the except branch shows its page and stops.  A read that was
\* tried found the memo empty or expired; a failure before the call leaves
\* the memo as it is.
Falha ==
    /\ \E kept \in BOOLEAN :
         read_cache' = IF kept \/ ~conn_hashable THEN read_cache ELSE <<>>
    /\ Mostra(FalhaDeCarga)
    /\ UNCHANGED <<conn_hashable, remote, process_cache>>

(***************************************************************************)
(* process_data on sheets of up to MaxRows respondents whose rank cells    *)
(* range over missing, a placeholder phrase and a discipline, under        *)
(* every subset of the essential headers.                                  *)
(***************************************************************************)
ProcessAnswers ==
    {Answer(Txt_CC, Mat_2022, Morning, Formar, p1, p2, p3) :
       p1, p2, p3 \in {NaN, Calculus, CHOOSE f \in frases_a_remover : f[15] = "2"}}

\* the sheets under headers H: no response, or one
SheetsUnder(H) ==
    {[columns |-> H, rows |-> <<>>],
     [columns |-> H,
      rows |-> <<SheetRow(H, Answer(Txt_CC, Mat_2022, Morning, Formar,
                                    Calculus, Physics, NaN))>>]}

ProcessSheets ==
    {[columns |-> FormHeaders, rows |-> q] :
       q \in SeqUpTo({SheetRow(FormHeaders, a) : a \in ProcessAnswers}, MaxRows)}
    \cup
    UNION {SheetsUnder(H \cup {TimestampHeader}) :
             H \in SUBSET (FormHeaders \ {TimestampHeader})}

InitProcess == \E t \in ProcessSheets : InitWith(t, TRUE)

NextProcess == Rerun

SpecProcess == InitProcess /\ [][NextProcess]_vars

(***************************************************************************)
(* The expansions and their aggregates on sheets of up to MaxDetalhe       *)
(* respondents who all chose one discipline, the packed availability and   *)
(* motivation fields ranging over texts with plain, unspaced, padded,      *)
(* trailing and doubled separators, and denylisted answers in any case.    *)
(***************************************************************************)
ExpandAnswers ==
    {Answer(Txt_CC, Mat_2022, d, m, Calculus, NaN, NaN) :
       d \in
          {NaN,
           Morning,
           Morning \o Comma \o Space \o Evening,
           Evening \o Comma \o Morning,
           Space \o Morning \o Space \o Comma \o Space \o Space \o Evening \o Space,
           Evening \o Comma},
       m \in
          {NaN,
           Formar,
           Outros,
           OUTRO \o Comma \o Space \o Formar,
           Outros \o Comma \o Space \o SejaSincero,
           Formar \o Comma \o Comma \o Space \o Formar}}

ExpandSheets ==
    {[columns |-> FormHeaders, rows |-> q] :
       q \in SeqUpTo({SheetRow(FormHeaders, a) : a \in ExpandAnswers}, MaxDetalhe)}

InitExpand == \E t \in ExpandSheets : InitWith(t, TRUE)

NextExpand == Rerun

SpecExpand == InitExpand /\ [][NextExpand]_vars

(***************************************************************************)
(* process_data on sheets of up to MaxFrases respondents whose rank cells  *)
(* range, in every rank column, over a discipline, the three placeholder   *)
(* phrases and a phrase followed by a space.                               *)
(***************************************************************************)
FraseAnswers ==
    {Answer(Txt_CC, Mat_2022, Morning, Formar, p1, p2, p3) :
       p1, p2, p3 \in frases_a_remover
                      \cup {Calculus, (CHOOSE f \in frases_a_remover : f[15] = "1") \o Space}}

FraseSheets ==
    {[columns |-> FormHeaders, rows |-> q] :
       q \in SeqUpTo({SheetRow(FormHeaders, a) : a \in FraseAnswers}, MaxFrases)}

InitFrases == \E t \in FraseSheets : InitWith(t, TRUE)

NextFrases == Rerun

SpecFrases == InitFrases /\ [][NextFrases]_vars

(***************************************************************************)
(* A session: the form's sheet starts empty, responses arrive, the page    *)
(* is reloaded and the filters are changed.                                *)
(***************************************************************************)
RespostaA ==
    Answer(Txt_CC, Mat_2022, Morning \o Comma \o Space \o Evening,
           Formar \o Comma \o Space \o Outros, Calculus, Physics, NaN)

\* a registration typed as 1.5: the year is 1.5, the year option reads 1
RespostaB == Answer(Txt_SI, <<"1",".","5">>, NaN, OUTRO, Physics, Calculus, NaN)

RespostaC == Answer(Txt_CC, <<"2","0","2","3","0","7">>, Evening, NaN, Calculus, NaN, NaN)

RespostaD ==
    Answer(Txt_SI, NaN, Morning, SejaSincero,
           NaN, CHOOSE f \in frases_a_remover : f[15] = "2", NaN)

\* a registration typed as inf: the year is infinite and int(a) overflows
RespostaE == Answer(Txt_CC, <<"i","n","f">>, Morning, Formar, Physics, NaN, NaN)

\* a registration typed as 1: with the 1.5 of RespostaB the table of students
\* by year has two columns labelled 1
RespostaF == Answer(Txt_SI, <<"1">>, Evening, Formar, Physics, NaN, NaN)

\* no course, and a registration typed as 1e-9: alone, the year column is
\* downcast to integers and the year is 0
RespostaG == Answer(NaN, <<"1","e","-","9">>, Morning, Outros, Calculus, NaN, NaN)

\* a registration typed as 5e22: a year outside int64, and a year option no
\* 64-bit integer holds
RespostaH == Answer(Txt_CC, <<"5","e","2","2">>, Evening, Formar, Calculus, NaN, NaN)

\* the respondents, in the order in which they answer when they do
Respostas ==
    <<RespostaA, RespostaB, RespostaC, RespostaD, RespostaE,
      RespostaF, RespostaG, RespostaH>>

\* a respondent submits the form, nobody from that respondent on in the
\* order having answered yet: a row is appended to the sheet
Responde ==
    \E k \in 1..Len(Respostas) :
        /\ Len(remote.rows) < MaxRespostas
        /\ \A j \in k..Len(Respostas) :
             SheetRow(remote.columns, Respostas[j]) \notin Range(remote.rows)
        /\ remote' = [remote EXCEPT
                        !.rows = Append(@, SheetRow(remote.columns, Respostas[k]))]
        /\ UNCHANGED <<conn_hashable, read_cache, process_cache, pagina>>

Init == \E h \in BOOLEAN : InitWith([columns |-> FormHeaders, rows |-> <<>>], h)

Next ==
    \/ Responde
    \/ Rerun
    \/ SelecionaCurso
    \/ SelecionaAno
    \/ SelecionaDisciplina
    \/ Falha

Spec == Init /\ [][Next]_vars

(***************************************************************************)
(* Properties.                                                             *)
(***************************************************************************)
\* the page shown comes from a run that loaded a sheet
Ran == parada \notin {"inicio", "falha_carga"}

\* the table the last run loaded, with its columns renamed
Loaded == rename(read_cache[1])

\* the (respondent, rank) pairs of the loaded table
Pairs == {<<i, k>> : i \in 1..Len(read_cache[1].rows), k \in 1..3}

RankCell(i, k) == Loaded.rows[i][PRIORIDADES[k]]

AllRequiredPresent == \A c \in Range(COLUNAS_ESSENCIAIS) : c \in Loaded.columns

\* C1, as stated: with all required fields present, the long table has one row
\* per (respondent, rank) pair whose rank cell is not empty.
C1_AsStated ==
    (Ran /\ AllRequiredPresent)
      => Len(df_consolidado.rows) = Cardinality({q \in Pairs : ~isna(RankCell(q[1], q[2]))})

\* C1, amended: with all required fields present, the long table has one row
\* per (respondent, rank) pair whose rank cell is neither missing nor one of
\* the three placeholder phrases.
C1_RowCount ==
    (Ran /\ AllRequiredPresent)
      => Len(df_consolidado.rows)
           = Cardinality({q \in Pairs : /\ ~isna(RankCell(q[1], q[2]))
                                        /\ RankCell(q[1], q[2]) \notin frases_a_remover})

\* two respondents, with a missing cell, a placeholder cell and two choices
C1_Witness ==
    /\ Ran /\ AllRequiredPresent
    /\ Len(read_cache[1].rows) = 2
    /\ Len(df_consolidado.rows) = 2
    /\ \E q \in Pairs : isna(RankCell(q[1], q[2]))
    /\ \E q \in Pairs : RankCell(q[1], q[2]) \in frases_a_remover

\* C2: when a required field is absent after renaming, process_data reports
\* exactly the absent names (each once, in the order of COLUNAS_ESSENCIAIS),
\* returns two empty frames, and the run draws no filter, computes no
\* aggregate and shows no chart; with none absent nothing is reported.
C2_MissingFields ==
    Ran =>
      LET absent == {c \in Range(COLUNAS_ESSENCIAIS) : c \notin Loaded.columns}
      IN  /\ Range(erro) = absent
          /\ Len(erro) = Cardinality(absent)
          /\ \A i, j \in 1..Len(erro) :
               i < j => \E a, b \in 1..Len(COLUNAS_ESSENCIAIS) :
                          a < b /\ COLUNAS_ESSENCIAIS[a] = erro[i]
                                /\ COLUNAS_ESSENCIAIS[b] = erro[j]
          /\ absent # {} =>
               /\ <<"error", "mapeamento">> \in Range(tela)
               /\ df_raw = EmptyDataFrame /\ df_consolidado = EmptyDataFrame
               /\ curso_selecionado = SemWidget
               /\ ano_matricula_selecionado = SemWidget
               /\ disciplina_detalhe = SemWidget
               /\ df_filtrado_global = EmptyDataFrame /\ df_detalhe = EmptyDataFrame
               /\ demanda_total_disciplina = {} /\ demanda_disciplina = {}
               /\ contagem_disponibilidade = {} /\ contagem_motivacao = {}
               /\ \A e \in Range(tela) : e[1] # "plotly_chart"

\* a sheet with a response and two required fields absent was processed
C2_Witness ==
    /\ Ran
    /\ Len(read_cache[1].rows) = 1
    /\ Len(erro) = 2
    /\ df_consolidado = EmptyDataFrame

\* the positions of the commas of a packed field
CommaPositions(s) == {i \in 1..Len(s) : s[i] = ","}

\* position of the k-th comma of s; 0 before the first and Len(s) + 1 after
\* the last
NthComma(s, k) ==
    IF k = 0 THEN 0
    ELSE IF k > Cardinality(CommaPositions(s)) THEN Len(s) + 1
    ELSE CHOOSE i \in CommaPositions(s) :
           Cardinality({j \in CommaPositions(s) : j <= i}) = k

\* the text between the (k-1)-th and the k-th comma of s
Piece(s, k) == SubSeq(s, NthComma(s, k - 1) + 1, NthComma(s, k) - 1)

\* t from its first to its last character that is not whitespace
Trimmed(t) ==
    LET solid == {i \in 1..Len(t) : t[i] \notin Whitespace}
    IN  IF solid = {} THEN <<>>
        ELSE SubSeq(t, CHOOSE a \in solid : \A b \in solid : a <= b,
                       CHOOSE a \in solid : \A b \in solid : b <= a)

\* the rows of an expanded frame that come from the row labelled idx
RowsOf(df, idx) == SelectSeq(df.rows, LAMBDA r : r["index"] = idx)

\* the last run drew section 3 (availability) / section 4 (motivation)
Section3Ran ==
    \E e \in Range(tela) : e[2] \in {"fig_disponibilidade", "sem_disponibilidade"}

Section4Ran == \E e \in Range(tela) : e[2] \in {"fig_motivacao", "sem_motivos"}

\* the rows of `expanded` are those of the rows of df_detalhe with a field in
\* col, one per piece between commas, trimmed, in order, all else unchanged
ExpandsByComma(expanded, col) ==
    /\ \A r \in Range(df_detalhe.rows) :
         ~isna(r[col]) =>
           LET out == RowsOf(expanded, r["index"])
           IN  /\ Len(out) = Cardinality(CommaPositions(r[col])) + 1
               /\ \A k \in 1..Len(out) :
                    out[k] = [r EXCEPT ![col] = Trimmed(Piece(r[col], k))]
               /\ r[col] = Morning \o Comma \o Space \o Evening =>
                    /\ Len(out) = 2
                    /\ out[1][col] = Morning
                    /\ out[2][col] = Evening
    /\ \A x \in Range(expanded.rows) :
         \E r \in Range(df_detalhe.rows) : r["index"] = x["index"] /\ ~isna(r[col])

\* C3: every row of the detail-filtered table whose availability (resp.
\* motivation) field holds a packed string is expanded into one row per piece
\* between commas, each piece trimmed of the whitespace around it, the other
\* columns unchanged; "Morning, Evening" gives the two rows "Morning" and
\* "Evening".
C3_Expansion ==
    /\ Section3Ran => ExpandsByComma(df_disponibilidade, "Disponibilidade")
    /\ Section4Ran => ExpandsByComma(df_motivacao, "Motivacao")

\* a respondent's "Morning, Evening" and padded motivation texts were expanded
C3_Witness ==
    /\ Section3Ran /\ Section4Ran
    /\ \E r \in Range(df_detalhe.rows) :
         /\ r["Disponibilidade"] = Morning \o Comma \o Space \o Evening
         /\ Len(RowsOf(df_disponibilidade, r["index"])) = 2
         /\ ~isna(r["Motivacao"])
         /\ Len(RowsOf(df_motivacao, r["index"])) = 2
    /\ \E r \in Range(df_detalhe.rows) :
         /\ ~isna(r["Disponibilidade"])
         /\ Head(r["Disponibilidade"]) = " "
         /\ Len(RowsOf(df_disponibilidade, r["index"])) = 2

\* sums over the groups of an aggregate
RECURSIVE SumContagem(_)
SumContagem(agg) ==
    IF agg = {} THEN 0
    ELSE LET g == CHOOSE x \in agg : TRUE
         IN  g.Contagem + SumContagem(agg \ {g})

RECURSIVE SumNum(_)
SumNum(agg) ==
    IF agg = {} THEN 0
    ELSE LET g == CHOOSE x \in agg : TRUE
         IN  g.Porcentagem.num + SumNum(agg \ {g})

\* agg has one group per value of col in df, its count the number of rows of
\* df with that value, its percentage 100 * count / (sum of the counts); the
\* percentages (quotients over one denominator) add up to 100
PercentagesOf(agg, df, col) ==
    agg # {} =>
      /\ \A g \in agg :
           /\ g.Contagem = Cardinality({i \in 1..Len(df.rows) : df.rows[i][col] = g.Valor})
           /\ g.Contagem > 0
           /\ g.Porcentagem.num = 100 * g.Contagem
           /\ g.Porcentagem.den = SumContagem(agg)
      /\ \A g, h \in agg : g.Valor = h.Valor => g = h
      /\ \A r \in Range(df.rows) : \E g \in agg : g.Valor = r[col]
      /\ SumNum(agg) = 100 * SumContagem(agg)

\* C4: in a non-empty availability or motivation aggregate each group's
\* percentage is 100 * group count / total count, the total being the sum of
\* the group counts of the filtered view, and the percentages sum to 100.
C4_Percentages ==
    /\ PercentagesOf(contagem_disponibilidade, df_disponibilidade, "Disponibilidade")
    /\ PercentagesOf(contagem_motivacao, df_motivacao_filtrada, "Motivacao")

\* both aggregates hold two groups of different sizes, and a respondent
\* counts in more than one group
C4_Witness ==
    /\ \E g, h \in contagem_disponibilidade : g.Contagem < h.Contagem
    /\ \E g, h \in contagem_motivacao : g.Contagem < h.Contagem
    /\ Len(df_disponibilidade.rows) > Len(df_detalhe.rows)

\* v equals a denylisted string when compared without regard to case
Denylisted(v) == [i \in 1..Len(v) |-> LowerChar(v[i])] \in motivos_excluir

\* C5: no group of the motivation aggregate is a denylisted string in any
\* case; when every expanded motivation value is denylisted the aggregate is
\* empty, the notice of section 4 is shown and nothing is reported as an
\* error.
C5_Denylist ==
    Section4Ran =>
      /\ \A g \in contagem_motivacao : ~Denylisted(g.Valor)
      /\ \A r \in Range(df_motivacao_filtrada.rows) : ~Denylisted(r["Motivacao"])
      /\ (\A r \in Range(df_motivacao.rows) : Denylisted(r["Motivacao"])) =>
           /\ contagem_motivacao = {}
           /\ <<"warning", "sem_motivos">> \in Range(tela)
           /\ \A e \in Range(tela) : e[1] \notin {"error", "exception", "sidebar.error"}
           /\ parada = ""

\* two respondents gave only denylisted motivations, written with capitals,
\* and the notice is shown
C5_Witness ==
    /\ Section4Ran
    /\ Len(df_motivacao.rows) = 3
    /\ \E r \in Range(df_motivacao.rows) : r["Motivacao"] = Outros
    /\ \E r \in Range(df_motivacao.rows) : r["Motivacao"] = SejaSincero
    /\ \A r \in Range(df_motivacao.rows) : Denylisted(r["Motivacao"])
    /\ contagem_motivacao = {}
    /\ <<"warning", "sem_motivos">> \in Range(tela)

\* the last run computed the demand aggregates (section 1 was drawn)
Section1Ran == <<"plotly_chart", "fig_top_materias">> \in Range(tela)

\* the last run applied the course and year selection (the filter's notice
\* of section 1 was drawn)
FilterRan == <<"info", "filtro_info">> \in Range(tela)

\* respondent i of the loaded table passes the course and year selected: its
\* course is the one selected and its enrolment year is the integer selected
InView(i) ==
    /\ \/ curso_selecionado.value = TODOS_OS_CURSOS
       \/ /\ ~isna(Loaded.rows[i]["Curso"])
          /\ Loaded.rows[i]["Curso"] = curso_selecionado.value
    /\ \/ ano_matricula_selecionado.value = TODOS_OS_ANOS
       \/ \E n \in {IntegerOfText(ano_matricula_selecionado.value)} :
            AnoIgual(df_raw.rows[i]["Ano Matrícula"], n)

\* the (respondent, rank) pairs of the filtered view that chose discipline d
PairsFor(d) == {q \in Pairs : InView(q[1]) /\ RankCell(q[1], q[2]) = d}

\* the rank cells of the respondents of the loaded table
RankTriples ==
    {<<RankCell(i, 1), RankCell(i, 2), RankCell(i, 3)>> : i \in 1..Len(read_cache[1].rows)}

\* respondents A, B and C of the scenario, and nobody else
ScenarioABC ==
    /\ Len(read_cache[1].rows) = 3
    /\ RankTriples = {<<Calculus, Physics, NaN>>, <<Physics, Calculus, NaN>>,
                      <<Calculus, NaN, NaN>>}

\* C6: a discipline's total in the demand aggregate is the number of
\* (respondent, rank) pairs of the filtered view that chose it, every
\* discipline chosen in the view has its total, and the counts per
\* (discipline, rank) are the pairs at that rank and add up to the total; for
\* respondents A, B, C the long table has 5 rows, Calculus counts 3 and
\* Physics 2.
C6_Demand ==
    /\ (Ran /\ Section1Ran) =>
         /\ \A g \in demanda_total_disciplina :
              g.ContagemTotal = Cardinality(PairsFor(g.Disciplina))
         /\ \A q \in Pairs :
              (InView(q[1]) /\ ~isna(RankCell(q[1], q[2]))
                 /\ RankCell(q[1], q[2]) \notin frases_a_remover)
                => \E g \in demanda_total_disciplina : g.Disciplina = RankCell(q[1], q[2])
         /\ \A g, h \in demanda_total_disciplina : g.Disciplina = h.Disciplina => g = h
         /\ \A g \in demanda_disciplina :
              /\ g.Contagem
                   = Cardinality({q \in PairsFor(g.Disciplina) :
                                    PRIORIDADES[q[2]] = g.Prioridade})
              /\ g.Contagem > 0
              /\ g.ContagemTotal = Cardinality(PairsFor(g.Disciplina))
         /\ \A g \in demanda_total_disciplina :
              SumContagem({h \in demanda_disciplina : h.Disciplina = g.Disciplina})
                = g.ContagemTotal
    /\ (Ran /\ erro = <<>> /\ ScenarioABC) =>
         /\ Len(df_consolidado.rows) = 5
         /\ (Section1Ran /\ curso_selecionado.value = TODOS_OS_CURSOS
               /\ ano_matricula_selecionado.value = TODOS_OS_ANOS) =>
              demanda_total_disciplina
                = {[Disciplina |-> Calculus, ContagemTotal |-> 3],
                   [Disciplina |-> Physics, ContagemTotal |-> 2]}

\* the scenario's three respondents are loaded and shown unfiltered, Calculus
\* twice at rank 1 and once at rank 2
C6_Witness ==
    /\ Ran /\ Section1Ran /\ ScenarioABC
    /\ curso_selecionado.value = TODOS_OS_CURSOS
    /\ ano_matricula_selecionado.value = TODOS_OS_ANOS
    /\ Len(df_consolidado.rows) = 5
    /\ [Disciplina |-> Calculus, ContagemTotal |-> 3] \in demanda_total_disciplina
    /\ [Disciplina |-> Calculus, Prioridade |-> "Prioridade 1", Contagem |-> 2,
        ContagemTotal |-> 3] \in demanda_disciplina
    /\ [Disciplina |-> Calculus, Prioridade |-> "Prioridade 2", Contagem |-> 1,
        ContagemTotal |-> 3] \in demanda_disciplina

\* the last run put a notice on the page
NoticeShown == \E e \in Range(tela) : e[1] = "warning"

\* no row of the detail-filtered table has a value in col
NothingToExpand(col) == \A r \in Range(df_detalhe.rows) : isna(r[col])

\* C7, as stated: after a run on a sheet with every required field, nothing
\* is reported as an error, and each empty result (empty long table, no row
\* after the course/year filter, no row for the discipline selected, no value
\* to expand in a field) shows a notice while the other charts are served.
C7_AsStated ==
    (Ran /\ erro = <<>>) =>
      /\ \A e \in Range(tela) : e[1] \notin {"error", "exception", "sidebar.error"}
      /\ empty(df_consolidado) => NoticeShown
      /\ (~empty(df_consolidado) /\ empty(df_filtrado_global)) =>
           <<"warning", "sem_dados_filtro">> \in Range(tela)
      /\ (~empty(df_filtrado_global) /\ empty(df_detalhe)) =>
           /\ <<"warning", "sem_detalhe">> \in Range(tela)
           /\ Section1Ran
      /\ (~empty(df_detalhe) /\ NothingToExpand("Disponibilidade")) =>
           /\ <<"warning", "sem_disponibilidade">> \in Range(tela)
           /\ Section1Ran /\ Section4Ran
      /\ (~empty(df_detalhe) /\ NothingToExpand("Motivacao")) =>
           /\ <<"warning", "sem_motivos">> \in Range(tela)
           /\ Section1Ran /\ Section3Ran

\* the page variables as one record
PaginaAtual ==
    [erro |-> erro, tela |-> tela, parada |-> parada,
     df_raw |-> df_raw, df_consolidado |-> df_consolidado,
     curso |-> curso_selecionado, ano |-> ano_matricula_selecionado,
     disciplina |-> disciplina_detalhe,
     df_filtrado_global |-> df_filtrado_global,
     demanda_total_disciplina |-> demanda_total_disciplina,
     demanda_disciplina |-> demanda_disciplina,
     df_detalhe |-> df_detalhe,
     total_alunos |-> total_alunos, demanda_por_curso |-> demanda_por_curso,
     demanda_por_ano |-> demanda_por_ano, principal_curso |-> principal_curso,
     maior_demanda_ano |-> maior_demanda_ano,
     df_disponibilidade |-> df_disponibilidade,
     contagem_disponibilidade |-> contagem_disponibilidade,
     df_motivacao |-> df_motivacao,
     df_motivacao_filtrada |-> df_motivacao_filtrada,
     contagem_motivacao |-> contagem_motivacao]

\* C8: after any sequence of loads, new responses and filter changes, the
\* tables and aggregates on the page are those computed anew, without any
\* memo, from the raw table currently loaded under the current course, year
\* and discipline selection; every row of the filtered view satisfies the
\* selection and the percentages are over the expanded rows of that view;
\* each entry of process_data's memo holds the result for its own argument.
C8_Recomputed ==
    /\ \A e \in process_cache : e.ret = process_data(e.arg)
    /\ Ran =>
         /\ \E e \in process_cache : e.arg = read_cache[1]
         /\ \E saturates \in BOOLEAN :
              PaginaAtual = Script(process_data(read_cache[1]), curso_selecionado,
                                   ano_matricula_selecionado, disciplina_detalhe,
                                   saturates)
         /\ \A r \in Range(df_filtrado_global.rows) :
              /\ curso_selecionado.value \in {TODOS_OS_CURSOS, r["Curso"]}
              /\ FilterRan =>
                   ano_matricula_selecionado.value
                     \in {TODOS_OS_ANOS, IntText(r["Ano Matrícula"])}
         /\ \A r \in Range(df_detalhe.rows) : r["Disciplina"] = disciplina_detalhe.value
         /\ \A g \in contagem_disponibilidade :
              g.Porcentagem.den = Len(df_disponibilidade.rows)
         /\ \A g \in contagem_motivacao :
              g.Porcentagem.den = Len(df_motivacao_filtrada.rows)

\* a second dataset was loaded after new responses, a course is selected and
\* the aggregates of the filtered view are shown
C8_Witness ==
    /\ Ran
    /\ Cardinality(process_cache) >= 3
    /\ read_cache[1] = remote
    /\ curso_selecionado.value # TODOS_OS_CURSOS
    /\ Len(df_filtrado_global.rows) < Len(df_consolidado.rows)
    /\ contagem_disponibilidade # {}
    /\ contagem_motivacao # {}

\* the rows of df_detalhe with nothing in col leave no row in `expanded`, and
\* no row of `expanded` has an empty label
NoEmptyLabel(expanded, col) ==
    /\ \A r \in Range(df_detalhe.rows) :
         isna(r[col]) => RowsOf(expanded, r["index"]) = <<>>
    /\ \A x \in Range(expanded.rows) : x[col] # <<>> /\ ~isna(x[col])

\* C9, as stated: a row of the detail-filtered table whose availability
\* (resp. motivation) field is missing contributes no expanded row, and no
\* expanded row carries an empty label.
C9_AsStated ==
    /\ Section3Ran => NoEmptyLabel(df_disponibilidade, "Disponibilidade")
    /\ Section4Ran => NoEmptyLabel(df_motivacao, "Motivacao")

\* the respondent and the rank behind the row of the long table labelled idx,
\* melt numbering its rows from 0, rank by rank
RespondentOf(idx) == (idx % Len(read_cache[1].rows)) + 1

RankOf(idx) == (idx \div Len(read_cache[1].rows)) + 1

\* C10: the long table lists its rows rank by rank (all of rank 1, then 2,
\* then 3) and in input order inside a rank; each row has the label of its
\* rank, the choice found in that rank's column of its respondent and the
\* respondent's identity columns unchanged; each valid choice has its row.
C10_MeltOrder ==
    (Ran /\ erro = <<>>) =>
      /\ \A j \in 1..(Len(df_consolidado.rows) - 1) :
           \/ RankOf(df_consolidado.rows[j]["index"])
                < RankOf(df_consolidado.rows[j + 1]["index"])
           \/ /\ RankOf(df_consolidado.rows[j]["index"])
                   = RankOf(df_consolidado.rows[j + 1]["index"])
              /\ RespondentOf(df_consolidado.rows[j]["index"])
                   < RespondentOf(df_consolidado.rows[j + 1]["index"])
      /\ \A r \in Range(df_consolidado.rows) :
           /\ RankOf(r["index"]) \in 1..3
           /\ r["Prioridade"] = PRIORIDADES[RankOf(r["index"])]
           /\ r["Disciplina"] = RankCell(RespondentOf(r["index"]), RankOf(r["index"]))
           /\ \A c \in {"Curso", "Disponibilidade", "Motivacao", "Matricula"} :
                r[c] = Loaded.rows[RespondentOf(r["index"])][c]
           /\ r["Ano Matrícula"] = df_raw.rows[RespondentOf(r["index"])]["Ano Matrícula"]
      /\ \A q \in Pairs :
           (~isna(RankCell(q[1], q[2])) /\ RankCell(q[1], q[2]) \notin frases_a_remover)
             => \E r \in Range(df_consolidado.rows) :
                  RespondentOf(r["index"]) = q[1] /\ RankOf(r["index"]) = q[2]

\* three respondents of different courses, two rank blocks, five rows
C10_Witness ==
    /\ Ran /\ erro = <<>>
    /\ Len(read_cache[1].rows) = 3
    /\ Len(df_consolidado.rows) = 5
    /\ df_consolidado.rows[1]["Curso"] # df_consolidado.rows[2]["Curso"]
    /\ df_consolidado.rows[3]["Prioridade"] = "Prioridade 1"
    /\ df_consolidado.rows[4]["Prioridade"] = "Prioridade 2"
    /\ df_consolidado.rows[4]["index"] = 3

\* C11: a rank cell that is exactly one of the three placeholder phrases, in
\* whichever rank column it stands, leaves no row in the long table, and no
\* row of the long table has a placeholder phrase as its discipline.
C11_Placeholders ==
    (Ran /\ AllRequiredPresent) =>
      /\ \A r \in Range(df_consolidado.rows) : r["Disciplina"] \notin frases_a_remover
      /\ \A q \in Pairs :
           RankCell(q[1], q[2]) \in frases_a_remover
             => ~\E r \in Range(df_consolidado.rows) :
                   RespondentOf(r["index"]) = q[1] /\ RankOf(r["index"]) = q[2]
      /\ \A i \in 1..Len(df_raw.rows), k \in 1..3 :
           RankCell(i, k) \in frases_a_remover => isna(df_raw.rows[i][PRIORIDADES[k]])

\* a respondent wrote phrase 3 at rank 1, a discipline at rank 2 and phrase 2
\* at rank 3: the long table has the one row of the discipline
C11_Witness ==
    /\ Ran /\ AllRequiredPresent
    /\ Len(read_cache[1].rows) = 1
    /\ RankCell(1, 1) \in frases_a_remover /\ RankCell(1, 1)[15] = "3"
    /\ RankCell(1, 2) = Calculus
    /\ RankCell(1, 3) \in frases_a_remover /\ RankCell(1, 3)[15] = "2"
    /\ Len(df_consolidado.rows) = 1
    /\ df_consolidado.rows[1]["Prioridade"] = "Prioridade 2"

====
